---- MODULE Spec2Model ----
(***************************************************************************)
(* Bulk templated dispatch: the recipient normalizer and the three         *)
(* dispatch loops of the repository (SMSSender.send_messages in            *)
(* core_sms_sender.py, main in bsms.py, main in email-sender.py).          *)
(*                                                                         *)
(* Strings are sequences of one-character strings.  A run reads its rows   *)
(* lazily: the number of data rows is fixed at the start, the content of a *)
(* row is revealed when the reader reaches it.                             *)
(***************************************************************************)
EXTENDS Integers, Sequences, FiniteSets, Bags, TLC

VARIABLES
    engine,            \* "core" | "bsms" | "email" | "none": which loop runs
    cfg,               \* the run's configuration (config dict / argparse args)
    nrows,             \* number of data rows of the input file
    cells,             \* recipient values the input file may hold
    gateway,           \* transport behaviour: "flaky" | "up" | "down"
    db_conn,           \* history store handle: "none" | "ok" | "faulty" | "closed"
    messages,          \* the messages table, a bag of records
    pc,                \* position of the run
    pos,               \* data rows consumed from the reader so far
    rows,              \* the recipient field of each data row read so far
    idx,               \* enumerate() index of the row last yielded
    total_processed,
    sent_count,        \* SMSSender.sent_count
    continue_sending,  \* SMSSender.continue_sending
    log_batch,         \* pending history tuples
    out_log,           \* rows written to the output log, in order
    attempt,
    success,
    phone_norm,        \* normalized recipient of the row in progress
    smtp_connected,    \* email: smtp_connected
    session_smtp,      \* email: "None" | "open" | "quit"
    row_state,         \* history: which way the row in progress left the loop top
    calls,             \* history: transport invocations, in order
    batches,           \* history: arguments of log_to_db_batch, in order
    last_err,          \* email: last_err
    nin,               \* normalizer check: the inputs
    nout,              \* normalizer check: successive results
    sleeps,            \* history: backoff sleeps, in order
    asked,             \* history: times the daily-cap question was put
    notifications,     \* history: completion notifications, in order
    mark,              \* history: the run at the moment it was cancelled
    delays,            \* history: rows after which the inter-row delay was slept
    files,             \* two GUI runs: content of each output file, by path
    runs,              \* two GUI runs: state of each run's thread
    fin,               \* function checks: the inputs
    fout,              \* function checks: the results
    rin,               \* renderer check: template and row
    rout               \* renderer check: the results

setupVars == << engine, cfg, nrows, cells, gateway >>

smtpVars == << smtp_connected, session_smtp, last_err >>

guiVars == << files, runs >>

fnVars == << fin, fout >>

normVars == << nin, nout, rin, rout, guiVars, fnVars >>

histVars == << sleeps, asked, notifications, mark, delays >>

vars == << setupVars, db_conn, messages, pc, pos, rows, idx, total_processed,
           sent_count, continue_sending, log_batch, out_log, attempt, success,
           phone_norm, smtpVars, row_state, calls, batches, histVars, normVars >>

(***************************************************************************)
(* Bounds of the model.                                                    *)
(***************************************************************************)
MaxRows == 3          \* data rows of a small input file
MaxRetries == 1       \* largest configured retries of a small run
MaxStartRow == 2      \* largest configured start_row
MaxLimit == 2         \* largest configured limit (0 = unlimited)
MaxBigRows == 250     \* data rows of the largest batch-flush run
MaxLen == 3           \* longest raw value handed to the normalizer check
MaxPrefixLen == 2     \* longest country prefix handed to the normalizer check
MaxTemplateLen == 5   \* longest template handed to the renderer check
MaxBackoffRetries == 5  \* configured retries of the long-retry run
MaxGuiRows == 2       \* rows each of the two GUI runs may log

(***************************************************************************)
(* Program constants.                                                      *)
(***************************************************************************)
BatchSize == 100
DailyCap == 1000

(***************************************************************************)
(* String helpers (Python str methods used by normalize_phone).            *)
(***************************************************************************)
None == << "None" >>

\* str.strip(): the characters of the modelled alphabet that are whitespace
Whitespace == { " ", "\t" }

\* the characters normalize_phone removes; LRM, RLM stand for U+200E, U+200F
Separators == { " ", "-", "(", ")", ".", "LRM", "RLM" }

RECURSIVE LStripSet(_, _)
LStripSet(s, cs) ==
    IF s # << >> /\ Head(s) \in cs THEN LStripSet(Tail(s), cs) ELSE s

RECURSIVE RStripSet(_, _)
RStripSet(s, cs) ==
    IF s # << >> /\ s[Len(s)] \in cs THEN RStripSet(SubSeq(s, 1, Len(s) - 1), cs) ELSE s

Strip(s) == RStripSet(LStripSet(s, Whitespace), Whitespace)

LStrip(s, ch) == LStripSet(s, { ch })

RemoveSeparators(s) == SelectSeq(s, LAMBDA c : c \notin Separators)

StartsWith(s, p) == Len(p) <= Len(s) /\ SubSeq(s, 1, Len(p)) = p

Truthy(s) == s # None /\ s # << >>

(***************************************************************************)
(* normalize_phone                                                         *)
(***************************************************************************)
\* the leading zeros are kept when the prefix is prepended
normalize_phone_keeps_zeros(phone, country_prefix, ensure_plus) ==
    IF phone = None THEN << >>
    ELSE LET s1 == RemoveSeparators(Strip(phone)) IN
         IF s1 = << >> THEN << >>
         ELSE LET s2 == IF StartsWith(s1, << "0", "0" >>)
                        THEN << "+" >> \o SubSeq(s1, 3, Len(s1))
                        ELSE s1
                  s3 == IF ~StartsWith(s2, << "+" >>) /\ Truthy(country_prefix)
                        THEN LET cp_digits == LStrip(country_prefix, "+") IN
                             IF ~StartsWith(s2, cp_digits)
                             THEN country_prefix \o s2
                             ELSE s2
                        ELSE s2
              IN IF ensure_plus /\ ~StartsWith(s3, << "+" >>)
                 THEN << "+" >> \o s3
                 ELSE s3

\* the emptiness test of lines 30-31 is missing
normalize_phone_no_empty_check(phone, country_prefix, ensure_plus) ==
    IF phone = None THEN << >>
    ELSE LET s1 == RemoveSeparators(Strip(phone))
             s2 == IF StartsWith(s1, << "0", "0" >>)
                   THEN << "+" >> \o SubSeq(s1, 3, Len(s1))
                   ELSE s1
             s3 == IF ~StartsWith(s2, << "+" >>) /\ Truthy(country_prefix)
                   THEN LET cp_digits == LStrip(country_prefix, "+") IN
                        IF ~StartsWith(s2, cp_digits)
                        THEN country_prefix \o LStrip(s2, "0")
                        ELSE s2
                   ELSE s2
         IN IF ensure_plus /\ ~StartsWith(s3, << "+" >>)
            THEN << "+" >> \o s3
            ELSE s3

normalize_phone(phone, country_prefix, ensure_plus) ==
    IF phone = None THEN << >>
    ELSE LET s1 == RemoveSeparators(Strip(phone)) IN
         IF s1 = << >> THEN << >>
         ELSE LET s2 == IF StartsWith(s1, << "0", "0" >>)
                        THEN << "+" >> \o SubSeq(s1, 3, Len(s1))
                        ELSE s1
                  s3 == IF ~StartsWith(s2, << "+" >>) /\ Truthy(country_prefix)
                        THEN LET cp_digits == LStrip(country_prefix, "+") IN
                             IF ~StartsWith(s2, cp_digits)
                             THEN country_prefix \o LStrip(s2, "0")
                             ELSE s2
                        ELSE s2
              IN IF ensure_plus /\ ~StartsWith(s3, << "+" >>)
                 THEN << "+" >> \o s3
                 ELSE s3

(***************************************************************************)
(* History Gate: the messages table and SMSSender's three operations on it *)
(***************************************************************************)
RECURSIVE BagSum(_, _)
BagSum(B, S) ==
    IF S = {} THEN 0
    ELSE LET e == CHOOSE x \in S : TRUE IN B[e] + BagSum(B, S \ { e })

\* one row of the messages table; today: DATE(sent_at) = CURRENT_DATE
MessageRow(gateway_id, phone_number, status, today) ==
    [ gateway_id |-> gateway_id, phone_number |-> phone_number,
      status |-> status, today |-> today ]

get_daily_sent_count ==
    IF db_conn = "none" THEN 0
    ELSE BagSum(messages, { m \in DOMAIN messages :
                                m.gateway_id = cfg.gateway_id /\ m.today })

was_sent_today(phone_number) ==
    /\ db_conn # "none"
    /\ \E m \in DOMAIN messages :
          m.phone_number = phone_number /\ m.status = "success" /\ m.today

\* the table after INSERT of every tuple of logs and commit
RECURSIVE InsertAll(_, _)
InsertAll(table, logs) ==
    IF logs = << >> THEN table
    ELSE InsertAll(table (+) SetToBag({ MessageRow(Head(logs).gateway_id,
                                                   Head(logs).phone_number,
                                                   Head(logs).status, TRUE) }),
                   Tail(logs))

\* the table after log_to_db_batch(logs) returns
log_to_db_batch(logs) ==
    IF db_conn # "none" /\ logs # << >> THEN InsertAll(messages, logs) ELSE messages

\* whether executemany/commit may raise in log_to_db_batch(logs)
DbRaises(logs) ==
    IF db_conn = "faulty" /\ logs # << >> THEN BOOLEAN ELSE { FALSE }

(***************************************************************************)
(* Transport and output log                                                *)
(***************************************************************************)
\* the outcomes a transport call can have: ok or not ok
Outcomes ==
    CASE gateway = "up" -> { TRUE }
      [] gateway = "down" -> { FALSE }
      [] OTHER -> BOOLEAN

LogRow(row, to, attempts, ok, error) ==
    [ row |-> row, to |-> to, attempts |-> attempts, success |-> ok, error |-> error ]

\* every tuple is recorded as a success
HistoryTupleAlwaysSuccess(to, ok) ==
    [ gateway_id |-> cfg.gateway_id, phone_number |-> to, status |-> "success" ]

\* line 237: (gateway_id, phone_norm, message, "success" if success else "failed")
HistoryTuple(to, ok) ==
    [ gateway_id |-> cfg.gateway_id, phone_number |-> to,
      status |-> IF ok THEN "success" ELSE "failed" ]

Call(row, to, ok) == [ row |-> row, to |-> to, ok |-> ok ]

(***************************************************************************)
(* SMSSender.send_messages (core_sms_sender.py)                            *)
(***************************************************************************)
\* the loop stops one attempt early
RetryConditionOffByOne(a, retries) == a < retries

\* line 215: the retry loop's condition
RetryCondition(a, retries) == a <= retries

\* the field counts the retries, not the attempts
AttemptsFieldRetriesOnly(a) == IF a > 0 THEN a - 1 ELSE a

\* line 217: log_row["attempts"] = attempt
AttemptsField(a) == a

\* the batch is flushed one tuple late
BatchFullLate(batch) == Len(batch) > BatchSize

\* line 238: the pending batch is due for a flush
BatchFull(batch) == Len(batch) >= BatchSize

\* durations are in tenths of a second: 0.5 s and 5.0 s
BackoffBase == 5
BackoffCap == 50

\* the sleep grows without a cap
BackoffUncapped(a) == BackoffBase * 2 ^ (a - 1)

\* line 224: backoff = min(5.0, 0.5 * (2 ** (attempt - 1)))
Backoff(a) ==
    IF BackoffBase * 2 ^ (a - 1) < BackoffCap THEN BackoffBase * 2 ^ (a - 1)
    ELSE BackoffCap

Sleep(row, a, duration) == [ row |-> row, attempt |-> a, duration |-> duration ]

\* the flag is never looked at
CancellationIgnored(flag) == FALSE

\* line 179: if not self.continue_sending
CancellationObserved(flag) == ~flag

\* a limit of 0 stops the run like any other limit
LimitReachedAlsoAtZero(limit, n) == n >= limit

\* line 188: if limit and total_processed >= limit
LimitReached(limit, n) == limit # 0 /\ n >= limit

\* another thread clears the flag at any moment of the run
Cancel ==
    /\ engine = "core"
    /\ pc \notin { "done", "raised" }
    /\ continue_sending
    /\ continue_sending' = FALSE
    /\ mark' = [ set |-> TRUE, in_progress |-> pc \in { "attempt", "record" },
                  last |-> IF pc = "top" THEN idx - 1 ELSE idx ]
    /\ UNCHANGED << setupVars, db_conn, messages, pc, pos, rows, idx, total_processed,
                    sent_count, log_batch, out_log, attempt, success, phone_norm,
                    smtpVars, row_state, calls, batches, normVars,
                    sleeps, asked, notifications, delays >>

\* lines 163-176: open the output log, read the daily count
SendMessagesStart ==
    /\ engine = "core"
    /\ pc = "start"
    /\ sent_count' = get_daily_sent_count
    /\ log_batch' = << >>
    /\ out_log' = << >>
    /\ total_processed' = 0
    /\ idx' = cfg.start_row - 1
    /\ pc' = "fetch"
    /\ UNCHANGED << setupVars, db_conn, messages, pos, rows, continue_sending,
                    attempt, success, phone_norm, smtpVars, row_state, calls, batches,
                    normVars,
                    histVars >>

\* the row number does not advance
EnumerateStuck(i) == i

\* line 178: enumerate numbers the rows consecutively
Enumerate(i) == i + 1

\* iter_rows: the next row of the file; rows before start_row are consumed
IterRows ==
    /\ engine = "core"
    /\ pc = "fetch"
    /\ IF pos = nrows
       THEN /\ pc' = "flush"
            /\ UNCHANGED << pos, rows, idx >>
       ELSE \E c \in cells :
              /\ rows' = Append(rows, c)
              /\ pos' = pos + 1
              /\ IF pos + 1 < cfg.start_row
                 THEN pc' = "fetch" /\ idx' = idx
                 ELSE pc' = "top" /\ idx' = Enumerate(idx)
    /\ UNCHANGED << setupVars, db_conn, messages, total_processed, sent_count,
                    continue_sending, log_batch, out_log, attempt, success, phone_norm,
                    smtpVars, row_state, calls, batches, normVars,
                    histVars >>

\* lines 179-214: top of the loop body up to the retry loop
RowTop ==
    /\ engine = "core"
    /\ pc = "top"
    /\ \E answer \in (IF continue_sending /\ sent_count >= DailyCap
                      THEN BOOLEAN ELSE { TRUE }) :
         LET pn == normalize_phone(rows[pos], cfg.country_prefix, cfg.ensure_plus)
             branch ==
                 IF CancellationObserved(continue_sending) THEN "halted"
                 ELSE IF ~answer THEN "declined"
                 ELSE IF LimitReached(cfg.limit, total_processed) THEN "limit"
                 ELSE IF cfg.skip_duplicates /\ was_sent_today(pn) THEN "duplicate"
                 ELSE IF cfg.dry_run THEN "dry"
                 ELSE "send"
         IN /\ row_state' = branch
            /\ continue_sending' = IF branch = "declined" THEN FALSE
                                   ELSE continue_sending
            /\ total_processed' = IF branch \in { "duplicate", "dry", "send" }
                                  THEN total_processed + 1 ELSE total_processed
            /\ phone_norm' = IF branch \in { "duplicate", "dry", "send" }
                             THEN pn ELSE phone_norm
            /\ out_log' = IF branch = "dry"
                          THEN Append(out_log, LogRow(idx, pn, 0, FALSE, ""))
                          ELSE out_log
            /\ attempt' = IF branch = "send" THEN 0 ELSE attempt
            /\ success' = IF branch = "send" THEN FALSE ELSE success
            /\ pc' = CASE branch \in { "halted", "limit" } -> "flush"
                       [] branch \in { "declined", "duplicate", "dry" } -> "fetch"
                       [] OTHER -> "attempt"
    /\ asked' = IF continue_sending /\ sent_count >= DailyCap THEN asked + 1
                 ELSE asked
    /\ UNCHANGED << setupVars, db_conn, messages, pos, rows, idx, sent_count,
                    log_batch, smtpVars, calls, batches, normVars,
                    sleeps, notifications, mark, delays >>

\* lines 215-225: one pass of the retry loop
Attempt ==
    /\ engine = "core"
    /\ pc = "attempt"
    /\ RetryCondition(attempt, cfg.retries)
    /\ \E ok \in Outcomes :
         /\ attempt' = attempt + 1
         /\ calls' = Append(calls, Call(idx, phone_norm, ok))
         /\ success' = ok
         /\ pc' = IF ok THEN "record" ELSE "attempt"
    /\ sleeps' = IF success' THEN sleeps
                  ELSE Append(sleeps, Sleep(idx, attempt', Backoff(attempt')))
    /\ UNCHANGED << setupVars, db_conn, messages, pos, rows, idx, total_processed,
                    sent_count, continue_sending, log_batch, out_log, phone_norm,
                    smtpVars, row_state, batches, normVars,
                    asked, notifications, mark, delays >>

\* line 215: the loop condition fails
RetriesExhausted ==
    /\ engine = "core"
    /\ pc = "attempt"
    /\ ~RetryCondition(attempt, cfg.retries)
    /\ pc' = "record"
    /\ UNCHANGED << setupVars, db_conn, messages, pos, rows, idx, total_processed,
                    sent_count, continue_sending, log_batch, out_log, attempt, success,
                    phone_norm, smtpVars, row_state, calls, batches, normVars,
                    histVars >>

\* lines 227-246: write the log row, count, batch, flush a full batch
RecordOutcome ==
    /\ engine = "core"
    /\ pc = "record"
    /\ out_log' = Append(out_log,
                         LogRow(idx, phone_norm, AttemptsField(attempt), success, ""))
    /\ sent_count' = IF success THEN sent_count + 1 ELSE sent_count
    /\ LET batch == Append(log_batch, HistoryTuple(phone_norm, success)) IN
       IF BatchFull(batch)
       THEN \E raised \in DbRaises(batch) :
              /\ batches' = Append(batches, batch)
              /\ IF raised
                 THEN /\ pc' = "raised"
                      /\ log_batch' = batch
                      /\ messages' = messages
                 ELSE /\ pc' = "fetch"
                      /\ log_batch' = << >>
                      /\ messages' = log_to_db_batch(batch)
       ELSE /\ pc' = "fetch"
            /\ log_batch' = batch
            /\ UNCHANGED << batches, messages >>
    /\ delays' = IF pc' = "fetch" THEN Append(delays, idx) ELSE delays
    /\ UNCHANGED << setupVars, db_conn, pos, rows, idx, total_processed,
                    continue_sending, attempt, success, phone_norm, smtpVars,
                    row_state, calls, normVars,
                    sleeps, asked, notifications, mark >>

\* the pending batch is dropped when the loop was left by cancellation
FinalFlushUnlessHalted ==
    /\ engine = "core"
    /\ pc = "flush"
    /\ \E raised \in (IF continue_sending THEN DbRaises(log_batch) ELSE { FALSE }) :
         /\ batches' = IF continue_sending THEN Append(batches, log_batch) ELSE batches
         /\ IF raised
            THEN pc' = "raised" /\ messages' = messages
            ELSE /\ pc' = "complete"
                 /\ messages' = IF continue_sending THEN log_to_db_batch(log_batch)
                                 ELSE messages
    /\ UNCHANGED << setupVars, db_conn, pos, rows, idx, total_processed, sent_count,
                    continue_sending, log_batch, out_log, attempt, success, phone_norm,
                    smtpVars, row_state, calls, normVars,
                    histVars >>

\* line 249: flush what is pending when the loop has ended
FinalFlush ==
    /\ engine = "core"
    /\ pc = "flush"
    /\ \E raised \in DbRaises(log_batch) :
         /\ batches' = Append(batches, log_batch)
         /\ IF raised
            THEN pc' = "raised" /\ messages' = messages
            ELSE pc' = "complete" /\ messages' = log_to_db_batch(log_batch)
    /\ UNCHANGED << setupVars, db_conn, pos, rows, idx, total_processed, sent_count,
                    continue_sending, log_batch, out_log, attempt, success, phone_norm,
                    smtpVars, row_state, calls, normVars,
                    histVars >>

\* lines 251-255: completion callback, close the store handle
OnComplete ==
    /\ engine = "core"
    /\ pc = "complete"
    /\ pc' = "done"
    /\ db_conn' = IF db_conn = "none" THEN "none" ELSE "closed"
    /\ notifications' = Append(notifications, total_processed)
    /\ UNCHANGED << setupVars, messages, pos, rows, idx, total_processed, sent_count,
                    continue_sending, log_batch, out_log, attempt, success, phone_norm,
                    smtpVars, row_state, calls, batches, normVars,
                    sleeps, asked, mark, delays >>

(***************************************************************************)
(* main of bsms.py; sent_count stands for its local total_sent             *)
(***************************************************************************)
\* lines 138-146
BsmsStart ==
    /\ engine = "bsms"
    /\ pc = "start"
    /\ out_log' = << >>
    /\ total_processed' = 0
    /\ sent_count' = 0
    /\ idx' = 0
    /\ pc' = "fetch"
    /\ UNCHANGED << setupVars, db_conn, messages, pos, rows, continue_sending,
                    log_batch, attempt, success, phone_norm, smtpVars, row_state,
                    calls, batches, normVars,
                    histVars >>

\* line 147 with iter_rows_with_headers: every data row is yielded
BsmsIterRows ==
    /\ engine = "bsms"
    /\ pc = "fetch"
    /\ IF pos = nrows
       THEN /\ pc' = "complete"
            /\ UNCHANGED << pos, rows, idx >>
       ELSE \E c \in cells :
              /\ rows' = Append(rows, c)
              /\ pos' = pos + 1
              /\ idx' = Enumerate(idx)
              /\ pc' = "top"
    /\ UNCHANGED << setupVars, db_conn, messages, total_processed, sent_count,
                    continue_sending, log_batch, out_log, attempt, success, phone_norm,
                    smtpVars, row_state, calls, batches, normVars,
                    histVars >>

\* lines 148-170
BsmsRowTop ==
    /\ engine = "bsms"
    /\ pc = "top"
    /\ LET pn == normalize_phone(rows[pos], cfg.country_prefix, cfg.ensure_plus)
           branch ==
               IF idx < cfg.start_row THEN "before"
               ELSE IF LimitReached(cfg.limit, total_processed) THEN "limit"
               ELSE IF cfg.dry_run THEN "dry"
               ELSE "send"
       IN /\ row_state' = branch
          /\ total_processed' = IF branch \in { "dry", "send" }
                                THEN total_processed + 1 ELSE total_processed
          /\ phone_norm' = IF branch \in { "dry", "send" } THEN pn ELSE phone_norm
          /\ out_log' = IF branch = "dry"
                        THEN Append(out_log, LogRow(idx, pn, 0, FALSE, ""))
                        ELSE out_log
          /\ sent_count' = IF branch = "dry" THEN sent_count + 1 ELSE sent_count
          /\ attempt' = IF branch = "send" THEN 0 ELSE attempt
          /\ success' = IF branch = "send" THEN FALSE ELSE success
          /\ pc' = CASE branch = "limit" -> "complete"
                     [] branch \in { "before", "dry" } -> "fetch"
                     [] OTHER -> "attempt"
    /\ UNCHANGED << setupVars, db_conn, messages, pos, rows, idx, continue_sending,
                    log_batch, smtpVars, calls, batches, normVars,
                    histVars >>

\* lines 171-182: one pass of the retry loop
BsmsAttempt ==
    /\ engine = "bsms"
    /\ pc = "attempt"
    /\ attempt <= cfg.retries
    /\ \E ok \in Outcomes :
         /\ attempt' = attempt + 1
         /\ calls' = Append(calls, Call(idx, phone_norm, ok))
         /\ success' = ok
         /\ pc' = IF ok THEN "record" ELSE "attempt"
    /\ sleeps' = IF success' THEN sleeps
                  ELSE Append(sleeps, Sleep(idx, attempt', Backoff(attempt')))
    /\ UNCHANGED << setupVars, db_conn, messages, pos, rows, idx, total_processed,
                    sent_count, continue_sending, log_batch, out_log, phone_norm,
                    smtpVars, row_state, batches, normVars,
                    asked, notifications, mark, delays >>

\* line 171: the loop condition fails
BsmsRetriesExhausted ==
    /\ engine = "bsms"
    /\ pc = "attempt"
    /\ ~(attempt <= cfg.retries)
    /\ pc' = "record"
    /\ UNCHANGED << setupVars, db_conn, messages, pos, rows, idx, total_processed,
                    sent_count, continue_sending, log_batch, out_log, attempt, success,
                    phone_norm, smtpVars, row_state, calls, batches, normVars,
                    histVars >>

\* lines 183-190
BsmsRecordOutcome ==
    /\ engine = "bsms"
    /\ pc = "record"
    /\ out_log' = Append(out_log, LogRow(idx, phone_norm, attempt, success, ""))
    /\ sent_count' = sent_count + 1
    /\ pc' = "fetch"
    /\ delays' = Append(delays, idx)
    /\ UNCHANGED << setupVars, db_conn, messages, pos, rows, idx, total_processed,
                    continue_sending, log_batch, attempt, success, phone_norm,
                    smtpVars, row_state, calls, batches, normVars,
                    sleeps, asked, notifications, mark >>

\* line 191
BsmsComplete ==
    /\ engine = "bsms"
    /\ pc = "complete"
    /\ pc' = "done"
    /\ notifications' = Append(notifications, total_processed)
    /\ UNCHANGED << setupVars, db_conn, messages, pos, rows, idx, total_processed,
                    sent_count, continue_sending, log_batch, out_log, attempt, success,
                    phone_norm, smtpVars, row_state, calls, batches, normVars,
                    sleeps, asked, mark, delays >>

(***************************************************************************)
(* main of email-sender.py, bulk CSV mode; phone_norm stands for to_addr,  *)
(* sent_count for total_sent                                               *)
(***************************************************************************)
\* lines 261-267
EmailStart ==
    /\ engine = "email"
    /\ pc = "start"
    /\ out_log' = << >>
    /\ total_processed' = 0
    /\ sent_count' = 0
    /\ session_smtp' = "None"
    /\ smtp_connected' = FALSE
    /\ idx' = 0
    /\ pc' = "fetch"
    /\ UNCHANGED << setupVars, db_conn, messages, pos, rows, continue_sending,
                    log_batch, attempt, success, phone_norm, last_err, row_state,
                    calls, batches, normVars,
                    histVars >>

\* line 268 with iter_rows_with_headers: every data row is yielded
EmailIterRows ==
    /\ engine = "email"
    /\ pc = "fetch"
    /\ IF pos = nrows
       THEN /\ pc' = "close"
            /\ UNCHANGED << pos, rows, idx >>
       ELSE \E c \in cells :
              /\ rows' = Append(rows, c)
              /\ pos' = pos + 1
              /\ idx' = Enumerate(idx)
              /\ pc' = "top"
    /\ UNCHANGED << setupVars, db_conn, messages, total_processed, sent_count,
                    continue_sending, log_batch, out_log, attempt, success, phone_norm,
                    smtpVars, row_state, calls, batches, normVars,
                    histVars >>

\* lines 269-303; connect_smtp succeeds or raises
EmailRowTop ==
    /\ engine = "email"
    /\ pc = "top"
    /\ \E connected \in (IF smtp_connected THEN { TRUE } ELSE Outcomes) :
         LET to_addr == rows[pos]
             branch ==
                 IF idx < cfg.start_row THEN "before"
                 ELSE IF LimitReached(cfg.limit, total_processed) THEN "limit"
                 ELSE IF to_addr = << >> THEN "no-email"
                 ELSE IF cfg.dry_run THEN "dry"
                 ELSE IF ~connected THEN "connect_failed"
                 ELSE "send"
             counted == branch \notin { "before", "limit" }
         IN /\ row_state' = branch
            /\ total_processed' = IF counted THEN total_processed + 1
                                  ELSE total_processed
            /\ phone_norm' = IF counted THEN to_addr ELSE phone_norm
            /\ out_log' =
                 CASE branch = "no-email" ->
                        Append(out_log, LogRow(idx, << >>, 0, FALSE, "no-email"))
                   [] branch = "dry" ->
                        Append(out_log, LogRow(idx, to_addr, 0, FALSE, ""))
                   [] branch = "connect_failed" ->
                        Append(out_log,
                               LogRow(idx, to_addr, 0, FALSE, "smtp_connect_failed"))
                   [] OTHER -> out_log
            /\ sent_count' = IF branch = "dry" THEN sent_count + 1 ELSE sent_count
            /\ smtp_connected' = IF branch = "send" THEN TRUE ELSE smtp_connected
            /\ session_smtp' = IF branch = "send" /\ ~smtp_connected THEN "open"
                               ELSE session_smtp
            /\ attempt' = IF branch = "send" THEN 0 ELSE attempt
            /\ success' = IF branch = "send" THEN FALSE ELSE success
            /\ last_err' = IF branch = "send" THEN "" ELSE last_err
            /\ pc' = CASE branch \in { "limit", "connect_failed" } -> "close"
                       [] branch \in { "before", "no-email", "dry" } -> "fetch"
                       [] OTHER -> "attempt"
    /\ UNCHANGED << setupVars, db_conn, messages, pos, rows, idx, continue_sending,
                    log_batch, calls, batches, normVars,
                    histVars >>

\* lines 304-323: one pass of the retry loop; a send on a session that is not
\* open raises; after a failure the session is quit and connect_smtp is tried
EmailAttempt ==
    /\ engine = "email"
    /\ pc = "attempt"
    /\ attempt <= cfg.retries
    /\ \E ok \in (IF session_smtp = "open" THEN Outcomes ELSE { FALSE }),
          reconnected \in Outcomes :
         /\ attempt' = attempt + 1
         /\ calls' = Append(calls, Call(idx, phone_norm, ok))
         /\ success' = ok
         /\ IF ok
            THEN /\ pc' = "record"
                 /\ UNCHANGED << session_smtp, last_err >>
            ELSE /\ pc' = "attempt"
                 /\ session_smtp' = IF reconnected THEN "open" ELSE "quit"
                 /\ last_err' = IF reconnected THEN "send_failed"
                                ELSE "send_failed; reconnect_failed"
    /\ sleeps' = IF success' THEN sleeps
                  ELSE Append(sleeps, Sleep(idx, attempt', Backoff(attempt')))
    /\ UNCHANGED << setupVars, db_conn, messages, pos, rows, idx, total_processed,
                    sent_count, continue_sending, log_batch, out_log, phone_norm,
                    smtp_connected, row_state, batches, normVars,
                    asked, notifications, mark, delays >>

\* line 304: the loop condition fails
EmailRetriesExhausted ==
    /\ engine = "email"
    /\ pc = "attempt"
    /\ ~(attempt <= cfg.retries)
    /\ pc' = "record"
    /\ UNCHANGED << setupVars, db_conn, messages, pos, rows, idx, total_processed,
                    sent_count, continue_sending, log_batch, out_log, attempt, success,
                    phone_norm, smtpVars, row_state, calls, batches, normVars,
                    histVars >>

\* lines 324-330
EmailRecordOutcome ==
    /\ engine = "email"
    /\ pc = "record"
    /\ out_log' = Append(out_log, LogRow(idx, phone_norm, attempt, success,
                                         IF success THEN "" ELSE last_err))
    /\ sent_count' = sent_count + 1
    /\ pc' = "fetch"
    /\ delays' = Append(delays, idx)
    /\ UNCHANGED << setupVars, db_conn, messages, pos, rows, idx, total_processed,
                    continue_sending, log_batch, attempt, success, phone_norm,
                    smtpVars, row_state, calls, batches, normVars,
                    sleeps, asked, notifications, mark >>

\* lines 331-337
EmailClose ==
    /\ engine = "email"
    /\ pc = "close"
    /\ session_smtp' = IF session_smtp = "None" THEN "None" ELSE "quit"
    /\ pc' = "done"
    /\ notifications' = Append(notifications, total_processed)
    /\ UNCHANGED << setupVars, db_conn, messages, pos, rows, idx, total_processed,
                    sent_count, continue_sending, log_batch, out_log, attempt, success,
                    phone_norm, smtp_connected, last_err, row_state, calls, batches,
                    normVars,
                    sleeps, asked, mark, delays >>

(***************************************************************************)
(* Initial states: a run after construction, before its first step         *)
(***************************************************************************)
Prefix == << "+", "2" >>

\* phone column values of a small file: an empty cell and a local number
SmsCells == { << >>, << "0", "7" >> }

OtherPhone == << "+", "2", "9" >>

\* the messages table before the run
NoMessages == EmptyBag
SentBefore == SetToBag({ MessageRow(2, << "+", "2", "7" >>, "success", TRUE) })
NearCap == [ m \in { MessageRow(1, OtherPhone, "success", TRUE) } |-> DailyCap - 1 ]

DbScenarios ==
    { << "none", NoMessages >>, << "ok", NoMessages >>, << "ok", SentBefore >>,
      << "ok", NearCap >>, << "faulty", NoMessages >> }

CoreConfigs ==
    [ retries : 0 .. MaxRetries, dry_run : BOOLEAN, skip_duplicates : BOOLEAN,
      start_row : 1 .. MaxStartRow, limit : 0 .. MaxLimit, gateway_id : { 1 },
      country_prefix : { Prefix }, ensure_plus : { FALSE } ]

\* sizes of the runs that fill whole history batches
BigSizes == { BatchSize - 1, BatchSize, BatchSize + 1, 2 * BatchSize, MaxBigRows }

BigConfig ==
    [ retries |-> 0, dry_run |-> FALSE, skip_duplicates |-> FALSE, start_row |-> 1,
      limit |-> 0, gateway_id |-> 1, country_prefix |-> Prefix,
      ensure_plus |-> FALSE ]

NoInput == [ phone |-> << >>, prefix |-> None, plus |-> FALSE ]

NoMark == [ set |-> FALSE, in_progress |-> FALSE, last |-> 0 ]

\* no output file written, no GUI run started, no function called
NoFiles == << >>
NoRuns == << >>
NoArgs == [ kind |-> "none" ]

NoTemplate == [ template |-> << >>, row |-> << >> ]

InitRun ==
    /\ pc = "start"
    /\ pos = 0
    /\ rows = << >>
    /\ idx = 0
    /\ total_processed = 0
    /\ sent_count = 0
    /\ continue_sending = TRUE
    /\ log_batch = << >>
    /\ out_log = << >>
    /\ attempt = 0
    /\ success = FALSE
    /\ phone_norm = << >>
    /\ smtp_connected = FALSE
    /\ session_smtp = "None"
    /\ last_err = ""
    /\ row_state = "none"
    /\ calls = << >>
    /\ batches = << >>
    /\ sleeps = << >>
    /\ asked = 0
    /\ notifications = << >>
    /\ mark = NoMark
    /\ delays = << >>
    /\ files = NoFiles
    /\ runs = NoRuns
    /\ fin = NoArgs
    /\ fout = << >>
    /\ nin = NoInput
    /\ nout = << >>
    /\ rin = NoTemplate
    /\ rout = << >>

InitCore ==
    /\ engine = "core"
    /\ cfg \in CoreConfigs
    /\ nrows \in 0 .. MaxRows
    /\ cells = SmsCells
    /\ gateway = "flaky"
    /\ \E d \in DbScenarios : db_conn = d[1] /\ messages = d[2]
    /\ InitRun

InitBig ==
    /\ engine = "core"
    /\ cfg = BigConfig
    /\ nrows \in BigSizes
    /\ cells = { << "0", "7" >> }
    /\ gateway \in { "up", "down" }
    /\ db_conn \in { "ok", "faulty" }
    /\ messages = NoMessages
    /\ InitRun

CliConfigs ==
    [ retries : 0 .. MaxRetries, dry_run : BOOLEAN, skip_duplicates : { FALSE },
      start_row : 1 .. MaxStartRow, limit : 0 .. MaxLimit, gateway_id : { 1 },
      country_prefix : { Prefix }, ensure_plus : { FALSE } ]

\* email column values of a small file
EmailCells == { << >>, << "a", "@", "x" >> }

InitBsms ==
    /\ engine = "bsms"
    /\ cfg \in CliConfigs
    /\ nrows \in 0 .. MaxRows
    /\ cells = SmsCells
    /\ gateway = "flaky"
    /\ db_conn = "none"
    /\ messages = NoMessages
    /\ InitRun

InitEmail ==
    /\ engine = "email"
    /\ cfg \in CliConfigs
    /\ nrows \in 0 .. MaxRows
    /\ cells = EmailCells
    /\ gateway = "flaky"
    /\ db_conn = "none"
    /\ messages = NoMessages
    /\ InitRun

\* a run of one row with many retries, for each of the three loops
BackoffConfig == [ BigConfig EXCEPT !.retries = MaxBackoffRetries ]

InitBackoff ==
    /\ engine \in { "core", "bsms", "email" }
    /\ cfg = BackoffConfig
    /\ nrows = 1
    /\ cells = { << "0", "7" >> }
    /\ gateway = "flaky"
    /\ db_conn = "none"
    /\ messages = NoMessages
    /\ InitRun

Init == InitCore \/ InitBig \/ InitBsms \/ InitEmail \/ InitBackoff

Next ==
    \/ Cancel
    \/ SendMessagesStart
    \/ IterRows
    \/ RowTop
    \/ Attempt
    \/ RetriesExhausted
    \/ RecordOutcome
    \/ FinalFlush
    \/ OnComplete
    \/ BsmsStart
    \/ BsmsIterRows
    \/ BsmsRowTop
    \/ BsmsAttempt
    \/ BsmsRetriesExhausted
    \/ BsmsRecordOutcome
    \/ BsmsComplete
    \/ EmailStart
    \/ EmailIterRows
    \/ EmailRowTop
    \/ EmailAttempt
    \/ EmailRetriesExhausted
    \/ EmailRecordOutcome
    \/ EmailClose

Spec == Init /\ [][Next]_vars

(***************************************************************************)
(* The normalizer on its own: normalize_phone applied to an input, and     *)
(* applied again to its own result with the same arguments                 *)
(***************************************************************************)
\* a space, a separator that is no whitespace, a whitespace that is no separator
NormChars == { "0", "2", "+", " ", "-", "\t" }

PrefixChars == { "0", "2", "+" }

StringsOver(chars, n) == UNION { [ 1 .. k -> chars ] : k \in 0 .. n }

\* "0712 345-678", "00254712345678" and their prefix "+254"
Example1 == << "0", "7", "1", "2", " ", "3", "4", "5", "-", "6", "7", "8" >>
Example2 == << "0", "0", "2", "5", "4", "7", "1", "2", "3", "4", "5", "6", "7", "8" >>
ExamplePrefix == << "+", "2", "5", "4" >>
ExampleResult == << "+", "2", "5", "4", "7", "1", "2", "3", "4", "5", "6", "7", "8" >>

NormInputs ==
    [ phone : StringsOver(NormChars, MaxLen) \cup { Example1, Example2, None },
      prefix : StringsOver(PrefixChars, MaxPrefixLen) \cup { ExamplePrefix, None },
      plus : BOOLEAN ]

InitNorm ==
    /\ engine = "none"
    /\ cfg = BigConfig
    /\ nrows = 0
    /\ cells = {}
    /\ gateway = "up"
    /\ db_conn = "none"
    /\ messages = NoMessages
    /\ pc = "idle"
    /\ pos = 0
    /\ rows = << >>
    /\ idx = 0
    /\ total_processed = 0
    /\ sent_count = 0
    /\ continue_sending = TRUE
    /\ log_batch = << >>
    /\ out_log = << >>
    /\ attempt = 0
    /\ success = FALSE
    /\ phone_norm = << >>
    /\ smtp_connected = FALSE
    /\ session_smtp = "None"
    /\ last_err = ""
    /\ row_state = "none"
    /\ calls = << >>
    /\ batches = << >>
    /\ sleeps = << >>
    /\ asked = 0
    /\ notifications = << >>
    /\ mark = NoMark
    /\ delays = << >>
    /\ files = NoFiles
    /\ runs = NoRuns
    /\ fin = NoArgs
    /\ fout = << >>
    /\ nin \in NormInputs
    /\ nout = << >>
    /\ rin = NoTemplate
    /\ rout = << >>

engineVars == << setupVars, db_conn, messages, pc, pos, rows, idx, total_processed,
                 sent_count, continue_sending, log_batch, out_log, attempt, success,
                 phone_norm, smtpVars, row_state, calls, batches, histVars >>

\* normalize_phone(phone, country_prefix, ensure_plus)
Normalize ==
    /\ engine = "none"
    /\ nout = << >>
    /\ nout' = << normalize_phone(nin.phone, nin.prefix, nin.plus) >>
    /\ UNCHANGED << engineVars, nin, rin, rout, guiVars, fnVars >>

\* normalize_phone of the result, with the same prefix and flag
Renormalize ==
    /\ engine = "none"
    /\ Len(nout) = 1
    /\ nout' = Append(nout, normalize_phone(nout[1], nin.prefix, nin.plus))
    /\ UNCHANGED << engineVars, nin, rin, rout, guiVars, fnVars >>

NextNorm == Normalize \/ Renormalize

SpecNorm == InitNorm /\ [][NextNorm]_vars

(***************************************************************************)
(* The two template renderers on their own: build_message of the SMS files *)
(* (safe dialect) and build_message of email-sender.py (escaped dialect).  *)
(* Templates are taken over an alphabet without the characters . [ ! :     *)
(* which str.format reads as attribute, index, conversion and format spec. *)
(***************************************************************************)
\* the result of a call that raised
Raised == << "RAISED" >>

Digits == << "0", "1", "2", "3", "4", "5", "6", "7", "8", "9" >>

DigitSet == { Digits[i] : i \in 1 .. Len(Digits) }

\* the characters of the model that match [A-Za-z0-9_]
NameChars == DigitSet \cup { "n", "b", "A", "a", "_", "T", "M", "P", "L", "V", "R",
                            "u", "p", "e", "r", "l", "o", "w" }

\* the characters of the model that match \s
RegexSpace == { " ", "\t" }

UpperChar(c) ==
    CASE c = "a" -> "A" [] c = "b" -> "B" [] c = "n" -> "N" [] c = "p" -> "P"
      [] c = "e" -> "E" [] OTHER -> c

LowerChar(c) ==
    CASE c = "A" -> "a" [] c = "B" -> "b" [] c = "N" -> "n" [] c = "P" -> "p"
      [] c = "E" -> "e" [] OTHER -> c

Upper(v) == [ i \in 1 .. Len(v) |-> UpperChar(v[i]) ]

Lower(v) == [ i \in 1 .. Len(v) |-> LowerChar(v[i]) ]

UpperSuffix == << "_", "u", "p", "p", "e", "r" >>

LowerSuffix == << "_", "l", "o", "w", "e", "r" >>

\* "" if v is None else str(v)
Clean(v) == IF v = None THEN << >> ELSE v

\* SafeDict(clean)[key]: the derived keys overwrite, a missing key gives ""
SafeDictGet(row, key) ==
    IF \E k \in DOMAIN row : key = k \o LowerSuffix
    THEN Lower(Clean(row[CHOOSE k \in DOMAIN row : key = k \o LowerSuffix]))
    ELSE IF \E k \in DOMAIN row : key = k \o UpperSuffix
    THEN Upper(Clean(row[CHOOSE k \in DOMAIN row : key = k \o UpperSuffix]))
    ELSE IF key \in DOMAIN row THEN Clean(row[key])
    ELSE << >>

\* concatenation that hands a raised exception on
Cat(a, b) == IF b = Raised THEN Raised ELSE a \o b

\* first position of a brace in t at or after i, 0 if there is none
RECURSIVE NextBrace(_, _)
NextBrace(t, i) ==
    IF i > Len(t) THEN 0
    ELSE IF t[i] \in { "{", "}" } THEN i
    ELSE NextBrace(t, i + 1)

\* a field name that str.format reads as a positional index
Positional(name) == \A i \in 1 .. Len(name) : name[i] \in DigitSet

\* template.format_map(SafeDict(clean))
RECURSIVE format_map(_, _)
format_map(t, row) ==
    IF t = << >> THEN << >>
    ELSE IF Head(t) = "}"
    THEN IF Len(t) >= 2 /\ t[2] = "}"
         THEN Cat(<< "}" >>, format_map(SubSeq(t, 3, Len(t)), row))
         ELSE Raised
    ELSE IF Head(t) = "{"
    THEN IF Len(t) = 1 THEN Raised
         ELSE IF t[2] = "{"
         THEN Cat(<< "{" >>, format_map(SubSeq(t, 3, Len(t)), row))
         ELSE LET k == NextBrace(t, 2) IN
              IF k = 0 \/ t[k] = "{" THEN Raised
              ELSE LET name == SubSeq(t, 2, k - 1) IN
                   IF Positional(name) THEN Raised
                   ELSE Cat(SafeDictGet(row, name),
                            format_map(SubSeq(t, k + 1, Len(t)), row))
    ELSE Cat(<< Head(t) >>, format_map(Tail(t), row))

\* build_message of core_sms_sender.py and bsms.py
build_message(template, row) == format_map(template, row)

\* length of the longest run of characters of cs in t from position i
RECURSIVE RunLen(_, _, _)
RunLen(t, i, cs) ==
    IF i <= Len(t) /\ t[i] \in cs THEN 1 + RunLen(t, i + 1, cs) ELSE 0

\* the match of \{\{\s*([A-Za-z0-9_]+)\s*\}\} at the head of t: its length
\* (0 if there is none) and its group 1
PlaceholderAt(t) ==
    IF ~StartsWith(t, << "{", "{" >>) THEN [ len |-> 0, name |-> << >> ]
    ELSE LET a == 3 + RunLen(t, 3, RegexSpace)
             n == RunLen(t, a, NameChars)
             b == a + n + RunLen(t, a + n, RegexSpace)
         IN IF n > 0 /\ b + 1 <= Len(t) /\ t[b] = "}" /\ t[b + 1] = "}"
            THEN [ len |-> b + 1, name |-> SubSeq(t, a, a + n - 1) ]
            ELSE [ len |-> 0, name |-> << >> ]

RECURSIVE DecStr(_)
DecStr(k) ==
    IF k < 10 THEN << Digits[k + 1] >>
    ELSE DecStr(k \div 10) \o << Digits[(k % 10) + 1] >>

\* f"{marker_prefix}{marker_counter}__"
Marker(k) ==
    << "_", "_", "T", "M", "P", "L", "_", "V", "A", "R", "_" >> \o DecStr(k)
        \o << "_", "_" >>

\* pattern.sub(_marker_repl, template): the text and the names, in order
RECURSIVE MarkerSub(_, _)
MarkerSub(t, k) ==
    IF t = << >> THEN [ tmp |-> << >>, names |-> << >> ]
    ELSE LET m == PlaceholderAt(t) IN
         IF m.len > 0
         THEN LET r == MarkerSub(SubSeq(t, m.len + 1, Len(t)), k + 1) IN
              [ tmp |-> Marker(k) \o r.tmp, names |-> << m.name >> \o r.names ]
         ELSE LET r == MarkerSub(Tail(t), k) IN
              [ tmp |-> << Head(t) >> \o r.tmp, names |-> r.names ]

\* s.replace(pat, rep) for a non-empty pat
RECURSIVE ReplaceAll(_, _, _)
ReplaceAll(s, pat, rep) ==
    IF Len(s) < Len(pat) THEN s
    ELSE IF StartsWith(s, pat)
    THEN rep \o ReplaceAll(SubSeq(s, Len(pat) + 1, Len(s)), pat, rep)
    ELSE << Head(s) >> \o ReplaceAll(Tail(s), pat, rep)

\* tmp.replace("{", "{{").replace("}", "}}")
EscapeBraces(s) ==
    ReplaceAll(ReplaceAll(s, << "{" >>, << "{", "{" >>), << "}" >>, << "}", "}" >>)

\* for marker, name in markers.items(): tmp = tmp.replace(marker, "{" + name + "}")
RECURSIVE RestoreMarkers(_, _, _)
RestoreMarkers(tmp, names, k) ==
    IF k > Len(names) THEN tmp
    ELSE RestoreMarkers(ReplaceAll(tmp, Marker(k - 1),
                                   << "{" >> \o names[k] \o << "}" >>),
                        names, k + 1)

\* build_message of email-sender.py
build_message_email(template, row) ==
    LET m == MarkerSub(template, 0)
    IN format_map(RestoreMarkers(EscapeBraces(m.tmp), m.names, 1), row)

TemplateChars == { "{", "}", "n", "0", " " }

NameN == << "n" >>

\* rows: no column, a column n, a column n without a value
RenderRows == { << >>, NameN :> << "A", "b" >>, NameN :> None }

\* "Hi {n}, b {b}" and "{n_upper}{n_lower}"
SafeExample == << "H", "i", " ", "{", "n", "}", ",", " ", "b", " ", "{", "b", "}" >>
DerivedExample == << "{", "n" >> \o UpperSuffix \o << "}", "{", "n" >> \o LowerSuffix
                      \o << "}" >>

\* "a{b}{{ n }}"
BraceExample == << "a", "{", "b", "}", "{", "{", " ", "n", " ", "}", "}" >>

RenderInputs ==
    [ template : StringsOver(TemplateChars, MaxTemplateLen)
                     \cup { SafeExample, DerivedExample, BraceExample },
      row : RenderRows ]

InitRender ==
    /\ engine = "none"
    /\ cfg = BigConfig
    /\ nrows = 0
    /\ cells = {}
    /\ gateway = "up"
    /\ db_conn = "none"
    /\ messages = NoMessages
    /\ pc = "idle"
    /\ pos = 0
    /\ rows = << >>
    /\ idx = 0
    /\ total_processed = 0
    /\ sent_count = 0
    /\ continue_sending = TRUE
    /\ log_batch = << >>
    /\ out_log = << >>
    /\ attempt = 0
    /\ success = FALSE
    /\ phone_norm = << >>
    /\ smtp_connected = FALSE
    /\ session_smtp = "None"
    /\ last_err = ""
    /\ row_state = "none"
    /\ calls = << >>
    /\ batches = << >>
    /\ sleeps = << >>
    /\ asked = 0
    /\ notifications = << >>
    /\ mark = NoMark
    /\ delays = << >>
    /\ files = NoFiles
    /\ runs = NoRuns
    /\ fin = NoArgs
    /\ fout = << >>
    /\ nin = NoInput
    /\ nout = << >>
    /\ rin \in RenderInputs
    /\ rout = << >>

Rendered(dialect, text) == [ dialect |-> dialect, text |-> text ]

\* build_message(template, row) of the SMS files
RenderSafe ==
    /\ engine = "none"
    /\ rout = << >>
    /\ rout' = << Rendered("safe", build_message(rin.template, rin.row)) >>
    /\ UNCHANGED << engineVars, nin, nout, rin, guiVars, fnVars >>

\* build_message(template, row) of email-sender.py
RenderEscaped ==
    /\ engine = "none"
    /\ rout = << >>
    /\ rout' = << Rendered("escaped", build_message_email(rin.template, rin.row)) >>
    /\ UNCHANGED << engineVars, nin, nout, rin, guiVars, fnVars >>

NextRender == RenderSafe \/ RenderEscaped

SpecRender == InitRender /\ [][NextRender]_vars

(***************************************************************************)
(* A state in which no dispatch loop runs: the start of the checks that    *)
(* exercise one function or one part of the program on its own             *)
(***************************************************************************)
IdleEngine ==
    /\ engine = "none"
    /\ cfg = BigConfig
    /\ nrows = 0
    /\ cells = {}
    /\ gateway = "up"
    /\ db_conn = "none"
    /\ messages = NoMessages
    /\ pc = "idle"
    /\ pos = 0
    /\ rows = << >>
    /\ idx = 0
    /\ total_processed = 0
    /\ sent_count = 0
    /\ continue_sending = TRUE
    /\ log_batch = << >>
    /\ out_log = << >>
    /\ attempt = 0
    /\ success = FALSE
    /\ phone_norm = << >>
    /\ smtp_connected = FALSE
    /\ session_smtp = "None"
    /\ last_err = ""
    /\ row_state = "none"
    /\ calls = << >>
    /\ batches = << >>
    /\ sleeps = << >>
    /\ asked = 0
    /\ notifications = << >>
    /\ mark = NoMark
    /\ delays = << >>
    /\ nin = NoInput
    /\ nout = << >>
    /\ rin = NoTemplate
    /\ rout = << >>

(***************************************************************************)
(* Two runs started from the window: App.send_messages starts a thread for *)
(* each click, each thread opens its output file, writes through a         *)
(* buffered handle of its own and closes it.  A file is a sequence of      *)
(* lines; a handle writes at its own offset.                               *)
(***************************************************************************)
GuiRuns == { 1, 2 }

\* app.py line 229: "output_file": "gui_sms_log.csv"
OutputFile(r) == "gui_sms_log.csv"

\* a line of an output file: the header (row 0) or the log row of a data row
Line(r, row) == [ run |-> r, row |-> row ]

\* a gap left by a write beyond the end of the file
Hole == [ run |-> 0, row |-> 0 ]

IdleRun == [ pc |-> "idle", path |-> "", row |-> 0, off |-> 0, buf |-> << >> ]

\* the content after a handle at offset off has written buf
WriteAt(content, off, buf) ==
    LET n == IF Len(content) > off + Len(buf) THEN Len(content) ELSE off + Len(buf)
    IN [ i \in 1 .. n |->
           IF i > off /\ i <= off + Len(buf) THEN buf[i - off]
           ELSE IF i <= Len(content) THEN content[i]
           ELSE Hole ]

\* the file system with the content of path replaced
WithFile(path, content) ==
    [ p \in DOMAIN files \cup { path } |-> IF p = path THEN content ELSE files[p] ]

InitTwoRuns ==
    /\ IdleEngine
    /\ files = NoFiles
    /\ runs = [ r \in GuiRuns |-> IdleRun ]
    /\ fin = NoArgs
    /\ fout = << >>

\* App.send_messages: a click on Send Messages starts a thread
GuiSend(r) ==
    /\ runs[r].pc = "idle"
    /\ runs' = [ runs EXCEPT ![r].pc = "open", ![r].path = OutputFile(r) ]
    /\ UNCHANGED << engineVars, nin, nout, rin, rout, files, fnVars >>

\* lines 172-174: open(output_file, "w") truncates; the header is buffered
OpenLog(r) ==
    /\ runs[r].pc = "open"
    /\ files' = WithFile(runs[r].path, << >>)
    /\ runs' = [ runs EXCEPT ![r].pc = "loop", ![r].off = 0,
                             ![r].buf = << Line(r, 0) >> ]
    /\ UNCHANGED << engineVars, nin, nout, rin, rout, fnVars >>

\* lines 208, 232: writer.writerow(log_row) of the next row
WriteRow(r) ==
    /\ runs[r].pc = "loop"
    /\ runs[r].row < MaxGuiRows
    /\ runs' = [ runs EXCEPT ![r].row = @ + 1,
                             ![r].buf = Append(@, Line(r, runs[r].row + 1)) ]
    /\ UNCHANGED << engineVars, nin, nout, rin, rout, files, fnVars >>

\* the handle's buffer is written out, wherever its boundary falls
FlushLog(r) ==
    /\ runs[r].pc = "loop"
    /\ runs[r].buf # << >>
    /\ files' = WithFile(runs[r].path,
                         WriteAt(files[runs[r].path], runs[r].off, runs[r].buf))
    /\ runs' = [ runs EXCEPT ![r].off = @ + Len(runs[r].buf), ![r].buf = << >> ]
    /\ UNCHANGED << engineVars, nin, nout, rin, rout, fnVars >>

\* the end of the with block: the rest of the buffer is written, the file closed
CloseLog(r) ==
    /\ runs[r].pc = "loop"
    /\ files' = WithFile(runs[r].path,
                         WriteAt(files[runs[r].path], runs[r].off, runs[r].buf))
    /\ runs' = [ runs EXCEPT ![r].pc = "done", ![r].off = @ + Len(runs[r].buf),
                             ![r].buf = << >> ]
    /\ UNCHANGED << engineVars, nin, nout, rin, rout, fnVars >>

NextTwoRuns ==
    \E r \in GuiRuns :
        \/ GuiSend(r)
        \/ OpenLog(r)
        \/ WriteRow(r)
        \/ FlushLog(r)
        \/ CloseLog(r)

SpecTwoRuns == InitTwoRuns /\ [][NextTwoRuns]_vars

(***************************************************************************)
(* The daily count on its own: runs of SMSSender.send_messages over a file *)
(* of at most one row, started on every table of earlier records           *)
(***************************************************************************)
\* earlier records: this gateway or another one, sent or failed, today or not
EarlierRecords ==
    { MessageRow(g, OtherPhone, st, today) :
        g \in { 1, 2 }, st \in { "success", "failed" }, today \in BOOLEAN }

InitCount ==
    /\ engine = "core"
    /\ cfg = BigConfig
    /\ nrows \in 0 .. 1
    /\ cells = { << "0", "7" >> }
    /\ gateway = "flaky"
    /\ db_conn = "ok"
    /\ messages \in { SetToBag(S) : S \in SUBSET EarlierRecords }
    /\ InitRun

NextCount ==
    \/ SendMessagesStart
    \/ IterRows
    \/ RowTop
    \/ Attempt
    \/ RetriesExhausted
    \/ RecordOutcome
    \/ FinalFlush
    \/ OnComplete

SpecCount == InitCount /\ [][NextCount]_vars

(***************************************************************************)
(* The SMTP credential of email-sender.py: lines 209-223 of main resolve   *)
(* smtp_password, line 294 makes the first connect, line 320 a reconnect   *)
(***************************************************************************)
\* line 38: DEFAULT_MAIL_PASS
DefaultMailPass ==
    << "g", "z", "y", "t", " ", "p", "d", "i", "a", " ",
       "v", "r", "z", "x", " ", "g", "b", "u", "z" >>

ExplicitPass == << "p" >>
EnvPass == << "e" >>
PromptedPass == << "q" >>

\* os.getenv(name, ""): value is None when the variable is unset
getenv(value) == IF value = None THEN << >> ELSE value

\* lines 209-223; prompted is what getpass returns ("" when it raises)
resolve_password(password, password_env, env, prompted) ==
    LET p1 == IF Truthy(password_env) THEN getenv(env) ELSE None
        p2 == IF p1 = << >> /\ Truthy(password) THEN password ELSE p1
        p3 == IF p2 = << >> THEN DefaultMailPass ELSE p2
        p4 == IF p3 = << >> THEN prompted ELSE p3
    IN IF p4 = None THEN << >> ELSE p4

\* --password and --password-env given or not, the variable unset, empty or set
CredInputs ==
    [ kind : { "cred" },
      password : { None, << >>, ExplicitPass },
      password_env : { None, << >>, << "V" >> },
      env : { None, << >>, EnvPass },
      prompted : { << >>, PromptedPass } ]

InitCred ==
    /\ IdleEngine
    /\ files = NoFiles
    /\ runs = NoRuns
    /\ fin \in CredInputs
    /\ fout = << >>

Used(step, password) == [ step |-> step, password |-> password ]

\* lines 209-223
ResolvePassword ==
    /\ fin.kind = "cred"
    /\ fout = << >>
    /\ fout' = << Used("resolve", resolve_password(fin.password, fin.password_env,
                                                   fin.env, fin.prompted)) >>
    /\ UNCHANGED << engineVars, nin, nout, rin, rout, guiVars, fin >>

\* line 294: connect_smtp(..., DEFAULT_MAIL_PASS, ...)
ConnectFirst ==
    /\ fin.kind = "cred"
    /\ Len(fout) = 1
    /\ fout' = Append(fout, Used("connect", DefaultMailPass))
    /\ UNCHANGED << engineVars, nin, nout, rin, rout, guiVars, fin >>

\* line 320: connect_smtp(..., smtp_password, ...)
Reconnect ==
    /\ fin.kind = "cred"
    /\ Len(fout) = 2
    /\ fout' = Append(fout, Used("reconnect", fout[1].password))
    /\ UNCHANGED << engineVars, nin, nout, rin, rout, guiVars, fin >>

NextCred == ResolvePassword \/ ConnectFirst \/ Reconnect

SpecCred == InitCred /\ [][NextCred]_vars

(***************************************************************************)
(* The row sources: iter_rows (core_sms_sender.py), iter_rows_with_headers *)
(* (bsms.py, email-sender.py) and get_row_count.  A file is the sequence   *)
(* of its CSV records; a record holds its cells and the number of physical *)
(* lines it takes (2 when a quoted cell contains a line break)             *)
(***************************************************************************)
MaxCols == 3
MaxRecords == 3
MaxRecordLines == 2

PhoneKey == << "p", "h", "o", "n", "e" >>
FirstNameKey == << "f", "i", "r", "s", "t", "_", "n", "a", "m", "e" >>
LastNameKey == << "l", "a", "s", "t", "_", "n", "a", "m", "e" >>
EmailKey == << "e", "m", "a", "i", "l" >>

\* header names of the examples: canonical ones, capitalised ones, another
HeaderNames ==
    { PhoneKey, << "P", "h", "o", "n", "e" >>, FirstNameKey, EmailKey,
      << "E", "m", "a", "i", "l" >>, << "c" >> }

\* the cell of column i holds the digit i
CellOf(i) == << Digits[i + 1] >>

RawRowOf(n) == [ i \in 1 .. n |-> CellOf(i) ]

\* raw_row += [""] * (len(headers) - len(raw_row))
PadRow(raw_row, headers) ==
    IF Len(raw_row) < Len(headers)
    THEN raw_row \o [ i \in 1 .. Len(headers) - Len(raw_row) |-> << >> ]
    ELSE raw_row

\* {headers[i]: raw_row[i] for i in range(len(headers))}: the last column of
\* a repeated name wins
HeaderDict(headers, raw_row) ==
    [ h \in { headers[i] : i \in 1 .. Len(headers) } |->
        raw_row[CHOOSE i \in 1 .. Len(headers) :
                    /\ headers[i] = h
                    /\ \A j \in 1 .. Len(headers) : headers[j] = h => j <= i] ]

\* if key not in {h.lower() for h in headers}:
\*     if len(raw_row) >= n and key not in row: row.setdefault(key, raw_row[n-1])
SetCanonical(row, headers, raw_row, key, n) ==
    IF /\ key \notin { Lower(headers[i]) : i \in 1 .. Len(headers) }
       /\ Len(raw_row) >= n
       /\ key \notin DOMAIN row
    THEN [ k \in DOMAIN row \cup { key } |-> IF k = key THEN raw_row[n] ELSE row[k] ]
    ELSE row

\* core_sms_sender.py lines 100-105: the row iter_rows yields
CoreRow(headers, raw) ==
    LET raw_row == PadRow(raw, headers)
    IN SetCanonical(HeaderDict(headers, raw_row), headers, raw_row, PhoneKey, 3)

\* bsms.py lines 89-103
BsmsRow(headers, raw) ==
    LET raw_row == PadRow(raw, headers)
        r1 == SetCanonical(HeaderDict(headers, raw_row), headers, raw_row,
                           FirstNameKey, 1)
        r2 == SetCanonical(r1, headers, raw_row, LastNameKey, 2)
    IN SetCanonical(r2, headers, raw_row, PhoneKey, 3)

\* email-sender.py lines 134-141
EmailRow(headers, raw) ==
    LET raw_row == PadRow(raw, headers)
    IN SetCanonical(HeaderDict(headers, raw_row), headers, raw_row, EmailKey, 1)

Record(cs, n) == [ cells |-> cs, lines |-> n ]

\* csv.reader: one list of cells per record
csv_reader(file) == [ k \in 1 .. Len(file) |-> file[k].cells ]

\* for row in f: the physical lines of the file
RECURSIVE PhysicalLines(_)
PhysicalLines(file) ==
    IF file = << >> THEN 0 ELSE Head(file).lines + PhysicalLines(Tail(file))

\* sheet.max_row: an empty sheet reports one row
MaxRowOf(file) == IF file = << >> THEN 1 ELSE Len(file)

\* Optional[int]: an integer, or None for a count that is not known
Counted(n) == [ known |-> TRUE, value |-> n ]
Unknown == [ known |-> FALSE, value |-> 0 ]

\* get_row_count; loaded is FALSE when load_workbook raises
get_row_count(suffix, file, loaded) ==
    CASE suffix = "csv" -> Counted(PhysicalLines(file) - 1)
      [] suffix = "xlsx" -> IF loaded THEN Counted(MaxRowOf(file) - 1) ELSE Unknown
      [] OTHER -> Unknown

\* iter_rows: headers = next(reader, []), then the records from start_row on
iter_rows(suffix, file, start_row) ==
    IF suffix \in { "csv", "xlsx" } /\ Len(file) - 1 >= start_row
    THEN LET reader == csv_reader(file)
         IN [ k \in 1 .. Len(file) - start_row |->
                CoreRow(Head(reader), reader[k + start_row]) ]
    ELSE << >>

HeaderLists ==
    UNION { [ 1 .. n -> HeaderNames ] : n \in 0 .. MaxCols }

RowInputs ==
    [ kind : { "row" },
      engine : { "core", "bsms", "email" },
      headers : HeaderLists,
      raw_row : { RawRowOf(n) : n \in 0 .. MaxCols + 1 } ]

InitRows ==
    /\ IdleEngine
    /\ files = NoFiles
    /\ runs = NoRuns
    /\ fin \in RowInputs
    /\ fout = << >>

CoreIterRow ==
    /\ fin.kind = "row"
    /\ fin.engine = "core"
    /\ fout = << >>
    /\ fout' = << CoreRow(fin.headers, fin.raw_row) >>
    /\ UNCHANGED << engineVars, nin, nout, rin, rout, guiVars, fin >>

BsmsIterRow ==
    /\ fin.kind = "row"
    /\ fin.engine = "bsms"
    /\ fout = << >>
    /\ fout' = << BsmsRow(fin.headers, fin.raw_row) >>
    /\ UNCHANGED << engineVars, nin, nout, rin, rout, guiVars, fin >>

EmailIterRow ==
    /\ fin.kind = "row"
    /\ fin.engine = "email"
    /\ fout = << >>
    /\ fout' = << EmailRow(fin.headers, fin.raw_row) >>
    /\ UNCHANGED << engineVars, nin, nout, rin, rout, guiVars, fin >>

NextRows == CoreIterRow \/ BsmsIterRow \/ EmailIterRow

SpecRows == InitRows /\ [][NextRows]_vars

\* a blank line, a one-cell record, a record whose quoted cell spans lines
RecordKinds ==
    { Record(<< >>, 1) } \cup
    { Record(RawRowOf(1), n) : n \in 1 .. MaxRecordLines }

FileInputs ==
    [ kind : { "file" },
      suffix : { "csv", "xlsx", "txt" },
      file : UNION { [ 1 .. n -> RecordKinds ] : n \in 0 .. MaxRecords } ]

InitFile ==
    /\ IdleEngine
    /\ files = NoFiles
    /\ runs = NoRuns
    /\ fin \in FileInputs
    /\ fout = << >>

\* App.count_rows: get_row_count(self.contact_file)
GetRowCount ==
    /\ fin.kind = "file"
    /\ fout = << >>
    /\ \E loaded \in BOOLEAN :
         fout' = << get_row_count(fin.suffix, fin.file, loaded) >>
    /\ UNCHANGED << engineVars, nin, nout, rin, rout, guiVars, fin >>

\* the run reads the file to its end with start_row = 1
IterAllRows ==
    /\ fin.kind = "file"
    /\ Len(fout) = 1
    /\ fout' = Append(fout, Len(iter_rows(fin.suffix, fin.file, 1)))
    /\ UNCHANGED << engineVars, nin, nout, rin, rout, guiVars, fin >>

NextFile == GetRowCount \/ IterAllRows

SpecFile == InitFile /\ [][NextFile]_vars

(***************************************************************************)
(* Runs of SMSSender.send_messages that start at or next to the daily cap  *)
(***************************************************************************)
\* the account's records of today: one short of the cap, at the cap, and at
\* the cap with failed sends only
CapTables ==
    { NearCap,
      [ m \in { MessageRow(1, OtherPhone, "success", TRUE) } |-> DailyCap ],
      [ m \in { MessageRow(1, OtherPhone, "failed", TRUE) } |-> DailyCap ] }

InitCap ==
    /\ engine = "core"
    /\ cfg \in [ retries : { 0 }, dry_run : { FALSE }, skip_duplicates : BOOLEAN,
                 start_row : { 1 }, limit : 0 .. MaxLimit, gateway_id : { 1 },
                 country_prefix : { Prefix }, ensure_plus : { FALSE } ]
    /\ nrows \in 0 .. MaxRows
    /\ cells = SmsCells
    /\ gateway = "flaky"
    /\ db_conn \in { "ok", "faulty" }
    /\ messages \in CapTables
    /\ InitRun

NextCap ==
    \/ Cancel
    \/ SendMessagesStart
    \/ IterRows
    \/ RowTop
    \/ Attempt
    \/ RetriesExhausted
    \/ RecordOutcome
    \/ FinalFlush
    \/ OnComplete

SpecCap == InitCap /\ [][NextCap]_vars

(***************************************************************************)
(* The runs under fair scheduling: the thread of the run keeps taking its  *)
(* steps, every transport call and every cap question returns              *)
(***************************************************************************)
InitFair == InitCore \/ InitBsms \/ InitEmail \/ InitBackoff

SpecFair == InitFair /\ [][Next]_vars /\ WF_vars(Next)

(***************************************************************************)
(* Properties                                                              *)
(***************************************************************************)
LastRec == out_log[Len(out_log)]

RowCalls(r) == SelectSeq(calls, LAMBDA c : c.row = r)

\* the record of a row that entered the retry loop
FromRetryLoop(rec) ==
    /\ ~cfg.dry_run
    /\ rec.error \notin { "no-email", "smtp_connect_failed" }

RECURSIVE SumLen(_)
SumLen(ss) == IF ss = << >> THEN 0 ELSE Len(Head(ss)) + SumLen(Tail(ss))

Min(a, b) == IF a <= b THEN a ELSE b

\* C1: when a run has ended, the output log holds one row per processed row
\* (total_processed counts the rows after start offset and limit), duplicates
\* that were skipped included.
C1_OneLogRecordPerRow == pc = "done" => Len(out_log) = total_processed

C3_AttemptsField ==
    out_log # << >> =>
        /\ LastRec.attempts = Len(RowCalls(LastRec.row))
        /\ IF FromRetryLoop(LastRec)
           THEN LastRec.attempts \in 1 .. cfg.retries + 1
           ELSE LastRec.attempts = 0

\* a row was logged after a failed and then a successful attempt
C3_Witness ==
    /\ out_log # << >>
    /\ LastRec.attempts = 2
    /\ LastRec.success
    /\ Len(RowCalls(LastRec.row)) = 2

\* C4: in dry-run mode the transport is never called and every log record has
\* success = TRUE and attempts = 0.
C4_DryRun ==
    cfg.dry_run =>
        /\ calls = << >>
        /\ out_log # << >> => (LastRec.success /\ LastRec.attempts = 0)

\* C5: a row skipped as a duplicate (skip_duplicates set, was_sent_today true)
\* is not passed to the transport and has a log record with attempts = 0 and
\* success = FALSE.
C5_DuplicateSkipLogged ==
    (engine = "core" /\ row_state = "duplicate" /\ pc = "fetch") =>
        /\ RowCalls(idx) = << >>
        /\ out_log # << >>
        /\ LastRec.row = idx
        /\ LastRec.attempts = 0
        /\ ~LastRec.success

\* C6: a run with start_row = s and limit L > 0 over N rows that is neither
\* cancelled nor aborted processes the rows s .. min(N, s+L-1) in order, logs
\* exactly one record for each, and calls the transport for no other row.
C6_RowWindow ==
    (pc = "done" /\ cfg.limit > 0 /\ continue_sending
        /\ row_state # "connect_failed") =>
        LET last == Min(nrows, cfg.start_row + cfg.limit - 1)
            count == IF last >= cfg.start_row THEN last - cfg.start_row + 1 ELSE 0
        IN /\ total_processed = count
           /\ Len(out_log) = count
           /\ \A k \in 1 .. Len(out_log) : out_log[k].row = cfg.start_row + k - 1
           /\ \A i \in 1 .. Len(calls) : calls[i].row \in cfg.start_row .. last

\* the sizes recordBatch must have seen when n tuples were produced
ExpectedBatchSizes(n) ==
    [ i \in 1 .. (n \div BatchSize) + 1 |->
        IF i <= n \div BatchSize THEN BatchSize ELSE n % BatchSize ]

\* C7: the pending batch never holds more than BatchSize tuples, every flush
\* before the final one carries exactly BatchSize tuples, and when the run
\* completes after n rows were sent the flushes carried floor(n/BatchSize)
\* batches of BatchSize tuples and then the n mod BatchSize remaining ones.
C7_BatchFlush ==
    engine = "core" =>
        /\ Len(log_batch) <= BatchSize
        /\ (batches # << >> /\ pc \notin { "complete", "done", "raised" }) =>
              Len(batches[Len(batches)]) = BatchSize
        /\ pc \in { "complete", "done" } =>
              LET n == Len(SelectSeq(out_log, LAMBDA r : r.attempts > 0))
              IN [ i \in 1 .. Len(batches) |-> Len(batches[i]) ]
                     = ExpectedBatchSizes(n)

\* a completed run of 250 sent rows: flushes of 100, 100 and 50 tuples
C7_Witness ==
    /\ engine = "core"
    /\ pc = "done"
    /\ Len(out_log) = 250
    /\ Len(batches) = 3
    /\ Len(batches[1]) = 100
    /\ Len(batches[2]) = 100
    /\ Len(batches[3]) = 50

\* C8: when the loop of a run has ended, for whatever reason, the pending
\* tuples are the last batch handed to log_to_db_batch, and every tuple the
\* run produced has been handed over, before the completion callback.
C8_FinalFlush ==
    (engine = "core" /\ pc \in { "complete", "done" }) =>
        /\ batches # << >>
        /\ batches[Len(batches)] = log_batch
        /\ SumLen(batches) = Len(SelectSeq(out_log, LAMBDA r : r.attempts > 0))

\* a cancelled run has completed with tuples that were pending
C8_Witness ==
    /\ engine = "core"
    /\ pc = "done"
    /\ row_state = "halted"
    /\ log_batch # << >>
    /\ batches[Len(batches)] = log_batch

\* C9: normalize_phone applied to its own result, with the same prefix and
\* flag, returns that result.
C9_Idempotent == Len(nout) = 2 => nout[2] = nout[1]

\* the steps of the claim, applied in order to a value that is present
ClaimedSteps(raw, prefix, forcePlus) ==
    LET trimmed == Strip(raw)
        cleaned == RemoveSeparators(trimmed)
        plussed == IF StartsWith(cleaned, << "0", "0" >>)
                   THEN << "+" >> \o Tail(Tail(cleaned))
                   ELSE cleaned
        digits == IF Truthy(prefix) THEN LStrip(prefix, "+") ELSE << >>
        prefixed == IF /\ ~StartsWith(plussed, << "+" >>)
                       /\ Truthy(prefix)
                       /\ ~StartsWith(plussed, digits)
                    THEN prefix \o LStrip(plussed, "0")
                    ELSE plussed
    IN IF forcePlus /\ ~StartsWith(prefixed, << "+" >>)
       THEN << "+" >> \o prefixed
       ELSE prefixed

\* C10 as stated: for every raw value the result is that of the steps.
C10_StepsForEveryValue ==
    (Len(nout) >= 1 /\ nin.phone # None) =>
        nout[1] = ClaimedSteps(nin.phone, nin.prefix, nin.plus)

\* C10: for every raw value that is not empty after trimming and removing the
\* separator characters, normalize_phone returns the result of the steps, in
\* particular +254712345678 for "0712 345-678" with prefix +254 and for
\* "00254712345678" without prefix.
C10_StepsForNonEmpty ==
    Len(nout) >= 1 =>
        /\ (nin.phone # None /\ RemoveSeparators(Strip(nin.phone)) # << >>) =>
              nout[1] = ClaimedSteps(nin.phone, nin.prefix, nin.plus)
        /\ (nin.phone = Example1 /\ nin.prefix = ExamplePrefix) =>
              nout[1] = ExampleResult
        /\ (nin.phone = Example2 /\ nin.prefix = None) => nout[1] = ExampleResult

\* "0712 345-678" with prefix +254 has been normalized to +254712345678
C10_Witness ==
    /\ Len(nout) >= 1
    /\ nin.phone = Example1
    /\ nin.prefix = ExamplePrefix
    /\ nout[1] = ExampleResult

\* every character of s is whitespace or a separator
Blank(s) == \A i \in 1 .. Len(s) : s[i] \in Whitespace \cup Separators

\* separators with whitespace around them only: a whitespace character that is
\* no separator stands in the leading or in the trailing run of whitespace
BlankOutside(s) ==
    /\ Blank(s)
    /\ \A i \in 1 .. Len(s) :
          s[i] \notin Separators =>
              \/ \A j \in 1 .. i : s[j] \in Whitespace
              \/ \A j \in i .. Len(s) : s[j] \in Whitespace

C12_SafeRenderTotal ==
    (rout # << >> /\ rout[1].dialect = "safe") => rout[1].text # Raised

\* the template with every {{ name }} token replaced by the row's value for
\* name and every other character kept
RECURSIVE SubstituteTokens(_, _)
SubstituteTokens(t, row) ==
    IF t = << >> THEN << >>
    ELSE LET m == PlaceholderAt(t) IN
         IF m.len > 0
         THEN SafeDictGet(row, m.name)
                  \o SubstituteTokens(SubSeq(t, m.len + 1, Len(t)), row)
         ELSE << Head(t) >> \o SubstituteTokens(Tail(t), row)

\* C13: build_message of email-sender.py never raises and returns the
\* template with each {{ name }} token replaced by the row's value for name
\* (the empty string when absent) and every other character unchanged.
C13_EscapedRender ==
    (rout # << >> /\ rout[1].dialect = "escaped") =>
        rout[1].text = SubstituteTokens(rin.template, rin.row)

\* the sleeps that followed the failed calls of row r
RowSleeps(r) == SelectSeq(sleeps, LAMBDA z : z.row = r)

FailedCalls == SelectSeq(calls, LAMBDA c : ~c.ok)

\* C14: every failed attempt is followed by one sleep; the sleep after the
\* failed attempt number i of a row lasts min(5.0, 0.5 * 2^(i-1)) seconds
\* (5, 10, 20, 40, 50, 50 tenths), never more than 5.0, and within a row the
\* sleeps do not decrease.
C14_Backoff ==
    /\ Len(sleeps) = Len(FailedCalls)
    /\ sleeps # << >> =>
          LET k == Len(sleeps) IN
          /\ sleeps[k].row = calls[Len(calls)].row \/ calls[Len(calls)].ok
          /\ sleeps[k].attempt = Len(RowSleeps(sleeps[k].row))
          /\ sleeps[k].duration =
                 Min(BackoffCap, BackoffBase * 2 ^ (sleeps[k].attempt - 1))
          /\ sleeps[k].duration <= BackoffCap
          /\ (k > 1 /\ sleeps[k - 1].row = sleeps[k].row) =>
                 sleeps[k - 1].duration <= sleeps[k].duration

\* six attempts of one row failed: the sleeps were 0.5, 1, 2, 4, 5 and 5 s
C14_Witness ==
    /\ Len(sleeps) = 6
    /\ [ k \in 1 .. 6 |-> sleeps[k].duration ] = << 5, 10, 20, 40, 50, 50 >>

\* C15: once another thread has cleared continue_sending (mark.last is the
\* last row whose iteration had started by then), the row that was in its
\* retry loop or about to be recorded still gets all its attempts, its log
\* record and its history tuple, and no later row is processed: no call and
\* no log record is made for it.
C15_CancelAtRowTop ==
    mark.set =>
        /\ \A i \in 1 .. Len(calls) : calls[i].row <= mark.last
        /\ \A k \in 1 .. Len(out_log) :
              /\ out_log[k].row <= mark.last
              /\ k > 1 => out_log[k - 1].row < out_log[k].row
        /\ pc \in { "attempt", "record" } => (mark.in_progress /\ idx = mark.last)
        /\ (mark.in_progress /\ pc \in { "flush", "complete", "done" }) =>
              /\ out_log # << >>
              /\ LastRec.row = mark.last
              /\ LastRec.attempts = Len(RowCalls(mark.last))
              /\ LastRec.success \/ LastRec.attempts = cfg.retries + 1
        /\ (mark.in_progress /\ pc \in { "complete", "done" }) =>
              SumLen(batches) = Len(SelectSeq(out_log, LAMBDA r : r.attempts > 0))

\* a run was cancelled while a row was in its retry loop: the row got both
\* its attempts and its record, the row after it was read and left alone
C15_Witness ==
    /\ mark.set
    /\ mark.in_progress
    /\ pc = "done"
    /\ LastRec.row = mark.last
    /\ LastRec.attempts = 2
    /\ ~LastRec.success
    /\ idx > mark.last

\* C16: within one run the daily-cap question is put to the caller at most
\* once.
C16_AskedAtMostOnce == asked <= 1

\* C17: a History Gate write that raises never aborts the run.
C17_WriteFailureDoesNotAbort == pc # "raised"

\* C18: a row whose delivery failed never ends the run: a run that was not
\* limited, cancelled or declined and whose last log record is a failure has
\* read every row of the file when it is done.
C18_FailureDoesNotEndRun ==
    (pc = "done" /\ cfg.limit = 0 /\ continue_sending /\ out_log # << >>
        /\ ~LastRec.success) => pos = nrows

\* C19: the transport is never called for a row whose normalized recipient
\* is the empty string.
C19_EmptyRecipientSkipped ==
    calls # << >> => calls[Len(calls)].to # << >>

\* C20: a run that has ended has emitted exactly one completion notification,
\* with the number of rows processed, and has released the store handle; no
\* notification is emitted before the run's last step.
C20_OneCompletion ==
    /\ notifications # << >> => pc = "done"
    /\ pc \in { "done", "raised" } =>
          /\ notifications = << total_processed >>
          /\ db_conn \in { "none", "closed" }

\* C21: while a run has its output log open the file holds lines of that run
\* only: no other run writes to it.
C21_OwnOutputLog ==
    \A r \in DOMAIN runs :
        runs[r].pc = "loop" =>
            \A i \in 1 .. Len(files[runs[r].path]) :
                files[runs[r].path][i].run = r

\* the records of the table logged today as successful for this gateway
SuccessToday ==
    BagSum(messages, { m \in DOMAIN messages :
                         m.gateway_id = cfg.gateway_id /\ m.today
                             /\ m.status = "success" })

\* C22: the count the daily cap starts from is the number of records logged
\* today with status success for this gateway.
C22_DailyCountSuccessOnly ==
    (engine = "core" /\ pc = "fetch" /\ pos = 0) => sent_count = SuccessToday

\* the credential by the precedence explicit value, then the value of the
\* named environment variable, then the prompted value
ClaimedCredential ==
    IF Truthy(fin.password) THEN fin.password
    ELSE IF Truthy(fin.password_env) /\ Truthy(fin.env) THEN fin.env
    ELSE fin.prompted

\* C23: the password the program resolves, and every password it logs in
\* with, is the one the precedence explicit > environment > prompt gives.
C23_CredentialPrecedence ==
    fin.kind = "cred" =>
        \A i \in 1 .. Len(fout) : fout[i].password = ClaimedCredential

\* C24: in the email engine a retry attempt that is about to be issued, after
\* a failed send of the same row, finds a session that was opened after that
\* failure, also when the reconnect failed.
C24_RetryOnFreshSession ==
    (engine = "email" /\ pc = "attempt" /\ attempt >= 1 /\ attempt <= cfg.retries)
        => session_smtp = "open"

\* C25: the inter-row delay is slept exactly once after each dry-run row and
\* each really sent row, and never after a duplicate-skipped row or after
\* cancellation.
C25_DelayAfterEachRow ==
    /\ \A i, j \in 1 .. Len(delays) : delays[i] = delays[j] => i = j
    /\ (pc = "fetch" /\ row_state \in { "dry", "send" })
           => (delays # << >> /\ delays[Len(delays)] = idx)
    /\ (pc \in { "fetch", "flush" } /\ row_state \in { "duplicate", "halted", "declined" })
           => \A i \in 1 .. Len(delays) : delays[i] # idx

\* C26: rows are processed strictly in source order with nothing overlapping:
\* the attempts follow the order of the rows, no attempt is made for a row
\* past the current one, the LogRecord of a row is written only once its
\* attempts are over and before any attempt of a later row, and the
\* LogRecords are in source order.
C26_SourceOrder ==
    LET n == Len(calls)
        m == Len(out_log)
    IN /\ n >= 2 => calls[n - 1].row <= calls[n].row
       /\ m >= 2 => out_log[m - 1].row < out_log[m].row
       /\ n >= 1 => calls[n].row <= idx
       /\ (m >= 1 /\ pc \in { "top", "attempt", "record" }) => out_log[m].row < idx
       /\ (n >= 1 /\ pc \notin { "attempt", "record", "raised" })
              => \E k \in 1 .. m : /\ out_log[k].row = calls[n].row
                                   /\ out_log[k].attempts >= 1

C26_Witness ==
    /\ engine = "core"
    /\ Len(out_log) >= 2
    /\ Len(calls) >= 3
    /\ calls[1].row < calls[Len(calls)].row
    /\ pc = "fetch"

\* C27: a backoff sleep happens only between two attempts of a row: no sleep
\* follows the attempt number retries + 1, and a row whose k attempts all
\* failed has slept k - 1 times.
C27_SleepsBetweenAttempts ==
    /\ sleeps # << >> => sleeps[Len(sleeps)].attempt <= cfg.retries
    /\ (pc = "record" /\ ~success) => Len(RowSleeps(idx)) = attempt - 1

\* the rows of the source from start_row to its end
RowsAvailable == IF nrows >= cfg.start_row THEN nrows - cfg.start_row + 1 ELSE 0

\* C28: a limit of 0 never stops the run, which then processes every row from
\* start_row to the end of the source; a limit L > 0 stops the run after
\* exactly min(L, rows available) processed rows.  Runs ended by cancellation,
\* a declined confirmation or a failed connect are not the claim's case.
C28_LimitZeroIsUnlimited ==
    /\ (engine \in { "core", "bsms", "email" } /\ cfg.limit = 0) => row_state # "limit"
    /\ (engine \in { "core", "bsms", "email" } /\ cfg.limit > 0) => total_processed <= cfg.limit
    /\ (pc = "done" /\ continue_sending /\ row_state # "connect_failed")
           => total_processed = IF cfg.limit = 0 THEN RowsAvailable
                                ELSE Min(cfg.limit, RowsAvailable)

C28_Witness ==
    /\ pc = "done"
    /\ continue_sending
    /\ cfg.limit = 1
    /\ RowsAvailable = 2
    /\ row_state = "limit"
    /\ total_processed = 1

\* the canonical names of an engine's rows with their column positions
Canonical(e) ==
    IF e = "email" THEN { << EmailKey, 1 >> }
    ELSE { << FirstNameKey, 1 >>, << LastNameKey, 2 >>, << PhoneKey, 3 >> }

\* C29: in a yielded row each header column (of a name that occurs once) maps
\* to the value at its position, "" when the physical row is shorter; and a
\* canonical name of the engine that no header matches case-insensitively is
\* a key of the row, set to the value of the column at its position, when
\* the row has such a column.
C29_CanonicalKeys ==
    (fin.kind = "row" /\ fout # << >>) =>
        LET row == fout[1]
            headers == fin.headers
            raw == fin.raw_row
            n == Len(headers)
        IN /\ \A i \in 1 .. n :
                (\A j \in 1 .. n : headers[j] = headers[i] => j = i) =>
                    /\ headers[i] \in DOMAIN row
                    /\ row[headers[i]] = IF i <= Len(raw) THEN raw[i] ELSE << >>
           /\ \A c \in Canonical(fin.engine) :
                (/\ \A i \in 1 .. n : Lower(headers[i]) # c[1]
                 /\ c[2] <= Len(raw))
                    => (c[1] \in DOMAIN row /\ row[c[1]] = raw[c[2]])

\* C30: get_row_count returns the unknown sentinel or a non-negative integer
\* equal to the number of rows iter_rows yields with start_row = 1.
C30_RowCount ==
    (fin.kind = "file" /\ fout # << >>) =>
        \/ ~fout[1].known
        \/ /\ fout[1].value >= 0
           /\ Len(fout) = 2 => fout[1].value = fout[2]

\* the caller has answered 'stop' to the daily-cap question
Declined == engine = "core" /\ ~continue_sending /\ ~mark.set

\* the row at which the caller answered 'stop'
DeclinedRow == IF row_state = "halted" THEN idx - 1 ELSE idx

\* the account's successful sends of today: stored ones and pending ones
AccountCount ==
    SuccessToday + Len(SelectSeq(log_batch, LAMBDA t : t.status = "success"))

\* C31: the daily-cap question is put only when the account's count has
\* reached the cap; once the caller has answered 'stop' no row is sent or
\* logged, the pending batch is flushed and the completion notification is
\* emitted.
C31_CapDecision ==
    /\ (engine = "core" /\ asked > 0 /\ pc # "raised") => AccountCount >= DailyCap
    /\ Declined =>
          /\ calls # << >> => calls[Len(calls)].row < DeclinedRow
          /\ out_log # << >> => out_log[Len(out_log)].row < DeclinedRow
          /\ pc # "raised"
          /\ pc = "done" =>
                /\ notifications = << total_processed >>
                /\ log_batch # << >> =>
                      (batches # << >> /\ batches[Len(batches)] = log_batch)

\* C32: with skip_duplicates set, no row is about to be sent to a recipient
\* whom the store records as successfully sent to today, and the transport is
\* not called for a (non-empty) recipient to whom a call of this run has
\* already succeeded.
C32_NoSendAfterSuccess ==
    (engine = "core" /\ cfg.skip_duplicates) =>
        /\ (pc = "attempt" /\ attempt = 0) =>
               ~\E m \in DOMAIN messages :
                    m.phone_number = phone_norm /\ m.status = "success" /\ m.today
        /\ \A k \in 1 .. Len(calls) - 1 :
               ~(/\ calls[k].ok
                 /\ calls[k].to = calls[Len(calls)].to
                 /\ calls[k].to # << >>)

\* C33: every connection of an email run, the first one and each reconnect,
\* logs in with the credential that was resolved at the start of the run.
C33_OneCredentialPerRun ==
    fin.kind = "cred" =>
        \A i \in 2 .. Len(fout) : fout[i].password = fout[1].password

\* C34: a run uses at most retries + 1 attempts for a row and eventually
\* emits its completion notification.
C34_Terminates ==
    /\ [](attempt <= cfg.retries + 1)
    /\ <>(notifications # << >>)

\* the tuples handed to log_to_db_batch so far, in the order of the calls
RECURSIVE Flatten(_)
Flatten(ss) == IF ss = << >> THEN << >> ELSE Head(ss) \o Flatten(Tail(ss))

\* the number of history tuples the run has produced
TuplesProduced ==
    IF pc \in { "complete", "done", "raised" } THEN SumLen(batches)
    ELSE SumLen(batches) + Len(log_batch)

\* the last history tuple the run has produced
LastTuple ==
    IF log_batch # << >> THEN log_batch[Len(log_batch)]
    ELSE LET flushed == SelectSeq(batches, LAMBDA b : b # << >>)
             last == flushed[Len(flushed)]
         IN last[Len(last)]

\* the tuples of the run that the store has taken
Stored ==
    IF db_conn = "none" THEN 0
    ELSE SumLen(batches)
             - (IF pc = "raised" THEN Len(batches[Len(batches)]) ELSE 0)

\* the count of the account when the run started
InitialCount == get_daily_sent_count - Stored

\* C35: each row that was attempted has exactly one history tuple, with the
\* row's recipient and with status success exactly when its log record has
\* success = TRUE; dry-run and skipped rows have none; when the run has ended
\* the batches handed to log_to_db_batch hold exactly these tuples, once each
\* and in row order; and sent_count is the initial daily count plus the
\* number of successful rows.
C35_OneTuplePerSentRow ==
    (engine = "core" /\ pc # "start") =>
        /\ TuplesProduced = IF cfg.dry_run THEN 0 ELSE Len(out_log)
        /\ (~cfg.dry_run /\ out_log # << >>) =>
              /\ LastRec.attempts >= 1
              /\ LastTuple = [ gateway_id |-> cfg.gateway_id,
                               phone_number |-> LastRec.to,
                               status |-> IF LastRec.success THEN "success"
                                          ELSE "failed" ]
        /\ pc \in { "done", "raised" } =>
              /\ Flatten(batches) =
                    IF cfg.dry_run THEN << >>
                    ELSE [ k \in 1 .. Len(out_log) |->
                             [ gateway_id |-> cfg.gateway_id,
                               phone_number |-> out_log[k].to,
                               status |-> IF out_log[k].success THEN "success"
                                          ELSE "failed" ] ]
              /\ \A k \in 1 .. Len(out_log) - 1 : out_log[k].row < out_log[k + 1].row
              /\ sent_count = InitialCount
                     + Len(SelectSeq(out_log, LAMBDA r : r.success))

\* a run that started at 999 has ended after a successful and a failed row
C35_Witness ==
    /\ engine = "core"
    /\ pc = "done"
    /\ Len(out_log) = 2
    /\ out_log[1].success
    /\ ~out_log[2].success
    /\ Flatten(batches) = << HistoryTuple(out_log[1].to, TRUE),
                             HistoryTuple(out_log[2].to, FALSE) >>
    /\ sent_count = DailyCap

====
